---- MODULE Spec2Model ----
(***************************************************************************)
(* Breath pacer of src/src/app/metronome/page.tsx (MetronomeApp).          *)
(*                                                                         *)
(* The React state of the component, its two timeout refs and the browser  *)
(* timers it arms are the state.  Time is discrete: Advance moves the      *)
(* clock by Quantum ms, and a timer whose remaining delay is 0 must run    *)
(* before the clock moves again.  Each handler and each timer callback is  *)
(* one action; the functions of the component are operators on a record    *)
(* of the component state, so that a callback that calls another function  *)
(* is the composition of the operators.                                    *)
(*                                                                         *)
(* The duration editors and sliders of the settings panel of the same      *)
(* page, and the calculator of src/unnamed/part_000 (VO2MaxCalculator),    *)
(* are modelled after the pacer; each has a specification of its own.      *)
(***************************************************************************)
EXTENDS Integers, FiniteSets, Sequences, TLC

VARIABLES isPlaying, isFullScreen, isCountdown, countdownNumber,
          currentPhase, timeRemaining, settings,
          phaseTimeoutRef, countdownTimeoutRef,
          timers, ticker, audioBroken, beep, mounted,
          last, sinceStart, cyclesDone,
          editingBreathIn, editingBreathOut, tempBreathIn, tempBreathOut,
          results, submitted

vars == << isPlaying, isFullScreen, isCountdown, countdownNumber,
           currentPhase, timeRemaining, settings,
           phaseTimeoutRef, countdownTimeoutRef,
           timers, ticker, audioBroken, beep, mounted, last, sinceStart,
           cyclesDone,
           editingBreathIn, editingBreathOut, tempBreathIn, tempBreathOut,
           results, submitted >>

\* The state of the calculator page: the results shown (none, or one
\* record) and, as history, the form values they were computed from.
CalcVars == << results, submitted >>

\* The state of the two duration editors of the settings panel.
PanelVars == << editingBreathIn, editingBreathOut, tempBreathIn, tempBreathOut >>

(***************************************************************************)
(* Bounds of the model.                                                    *)
(***************************************************************************)
\* Number of browser timeouts that may be pending at once.
MaxTimers == 2

\* Breath durations (ms) the user has configured before the session, and the
\* configurations built from them (two different durations, sound on or off).
BreathChoices == {500, 1000}

\* Completed breath cycles of a session that are counted (the count
\* saturates here).
MaxCycles == 1

Configs ==
  {c \in [breathInDuration : BreathChoices,
          breathOutDuration : BreathChoices,
          soundEnabled : BOOLEAN] : c.breathInDuration # c.breathOutDuration}

(***************************************************************************)
(* Constants of the program.                                               *)
(***************************************************************************)
CountdownFrom == 3
CountdownStepMs == 1000
RestartDelayMs == 100
InhaleHz == 800
ExhaleHz == 600
TickMs == 100

\* Accepted range of a saved duration (0.5 s to 60 s) and the range and
\* step of the two sliders (1 s to 10 s and 1 s to 15 s in steps of 0.5 s),
\* in ms.
MinBreathMs == 500
MaxBreathMs == 60000
SliderMinMs == 1000
SliderStepMs == 500
BreathInSliderMaxMs == 10000
BreathOutSliderMaxMs == 15000

\* Time from startCountdown to startBreathingSession: countdown(3),
\* countdown(2), countdown(1), countdown(0), each followed by one step.
CountdownTotalMs == (CountdownFrom + 1) * CountdownStepMs

\* The clock advances in steps of the shortest delay of the program (the
\* interval period, which is also the delay of restartMetronome); every
\* delay of the model is a multiple of it.
Quantum == TickMs

Slots == 1..MaxTimers

\* Values of a timeout ref: null, the handle of a timeout that has already
\* run (non-null, clearTimeout on it does nothing), or a pending timeout.
NullRef == 0
FiredRef == -1

TickerOff == -1
NoBeep == 0
NoStart == -1

NoTimer == [kind |-> "none", num |-> 0, remaining |-> 0, mark |-> "fresh",
            cap |-> [breathInDuration |-> 0, breathOutDuration |-> 0,
                     soundEnabled |-> FALSE]]

TransitionKinds == {"countdown", "begin", "breathOut", "nextCycle"}
PhaseKinds == {"breathOut", "nextCycle"}

(***************************************************************************)
(* The component state as a record, and the mode it is in.                 *)
(***************************************************************************)
Cur ==
  [isPlaying |-> isPlaying, isFullScreen |-> isFullScreen,
   isCountdown |-> isCountdown, countdownNumber |-> countdownNumber,
   currentPhase |-> currentPhase, timeRemaining |-> timeRemaining,
   phaseTimeoutRef |-> phaseTimeoutRef,
   countdownTimeoutRef |-> countdownTimeoutRef,
   timers |-> timers,
   beep |-> NoBeep]

Mode(s) ==
  IF s.isPlaying THEN "Running"
  ELSE IF s.isCountdown THEN "Countdown" ELSE "Idle"

HasFree(s) == \E i \in Slots : s.timers[i] = NoTimer

FreeSlot(s) ==
  CHOOSE i \in Slots : /\ s.timers[i] = NoTimer
                       /\ \A j \in Slots : j < i => s.timers[j] # NoTimer

\* setTimeout(callback, delay): a new pending timeout; returns its handle.
NewTimer(kind, num, delay, mark, cap) ==
  [kind |-> kind, num |-> num, remaining |-> delay, mark |-> mark, cap |-> cap]

\* clearTimeout(ref): removes the timeout if it is still pending.
ClearTimeout(tm, ref) ==
  IF ref \in Slots THEN [tm EXCEPT ![ref] = NoTimer] ELSE tm

\* A timeout that runs leaves the timer table; a ref that holds its handle
\* keeps the (now useless) handle.
Expire(s, i) ==
  [s EXCEPT !.timers[i] = NoTimer,
            !.phaseTimeoutRef = IF @ = i THEN FiredRef ELSE @,
            !.countdownTimeoutRef = IF @ = i THEN FiredRef ELSE @]

(***************************************************************************)
(* playBeep: returns without a sound when sound is disabled; otherwise it  *)
(* builds the oscillator and gain nodes, and any error of the audio API    *)
(* propagates to the caller (there is no try/catch).                       *)
(***************************************************************************)
PlayBeepThrows(cap) == cap.soundEnabled /\ audioBroken

\* The tone that playBeep(frequency) starts: none when sound is disabled.
playBeep(cap, frequency) == IF cap.soundEnabled THEN frequency ELSE NoBeep

(***************************************************************************)
(* startCycle and the two nested phase callbacks.                          *)
(***************************************************************************)
\* startCycle: enter 'in', beep, schedule the breath-out callback.
startCycle(s, mark, cap) ==
  LET s1 == [s EXCEPT !.currentPhase = "in",
                      !.timeRemaining = cap.breathInDuration]
  IN IF PlayBeepThrows(cap) THEN s1
     ELSE LET i == FreeSlot(s1)
          IN [s1 EXCEPT !.beep = playBeep(cap, InhaleHz),
                        !.timers[i] =
                          NewTimer("breathOut", 0, cap.breathInDuration, mark, cap),
                        !.phaseTimeoutRef = i]

\* A breath-out callback that ends the session after the first inhale, as a
\* cycle-bounded pacer would at its limit.
breathOutCallback_EndsSession(s, mark, cap) ==
  [s EXCEPT !.isPlaying = FALSE,
            !.currentPhase = "in",
            !.timeRemaining = 0]

\* The callback scheduled by startCycle: enter 'out', beep, schedule the
\* next cycle.
breathOutCallback(s, mark, cap) ==
  LET s1 == [s EXCEPT !.currentPhase = "out",
                      !.timeRemaining = cap.breathOutDuration]
  IN IF PlayBeepThrows(cap) THEN s1
     ELSE LET i == FreeSlot(s1)
          IN [s1 EXCEPT !.beep = playBeep(cap, ExhaleHz),
                        !.timers[i] =
                          NewTimer("nextCycle", 0, cap.breathOutDuration, mark, cap),
                        !.phaseTimeoutRef = i]

\* startBreathingSession
startBreathingSession(s, mark, cap) ==
  startCycle([s EXCEPT !.isPlaying = TRUE,
                       !.currentPhase = "in",
                       !.timeRemaining = cap.breathInDuration], mark, cap)

(***************************************************************************)
(* startCountdown and its inner function countdown(num).                   *)
(***************************************************************************)
countdown(s, num, mark, cap) ==
  LET i == FreeSlot(s)
  IN IF num > 0
     THEN [s EXCEPT !.countdownNumber = num,
                    !.timers[i] =
                      NewTimer("countdown", num - 1, CountdownStepMs, mark, cap),
                    !.countdownTimeoutRef = i]
     ELSE [s EXCEPT !.countdownNumber = 0,
                    !.timers[i] =
                      NewTimer("begin", 0, CountdownStepMs, mark, cap),
                    !.countdownTimeoutRef = i]

\* The callback of countdown(0): leave the countdown, start the session.
beginCallback(s, mark, cap) ==
  startBreathingSession([s EXCEPT !.isCountdown = FALSE], mark, cap)

startCountdown(s, cap) ==
  countdown([s EXCEPT !.isCountdown = TRUE,
                      !.isFullScreen = TRUE,
                      !.countdownNumber = CountdownFrom],
            CountdownFrom, "fresh", cap)

(***************************************************************************)
(* startMetronome, stopMetronome, restartMetronome.                        *)
(***************************************************************************)
\* startMetronome without its guard.
startMetronome_Unguarded(s, cap) ==
  IF HasFree(s) THEN startCountdown(s, cap) ELSE s

startMetronome(s, cap) ==
  IF s.isPlaying \/ s.isCountdown THEN s ELSE startCountdown(s, cap)

\* stopMetronome that leaves the phase and its display timer as they are.
stopMetronome_KeepsPhase(s) ==
  [s EXCEPT !.isPlaying = FALSE,
            !.isFullScreen = FALSE,
            !.isCountdown = FALSE,
            !.timers = ClearTimeout(ClearTimeout(@, s.phaseTimeoutRef),
                                    s.countdownTimeoutRef),
            !.phaseTimeoutRef = NullRef,
            !.countdownTimeoutRef = NullRef]

stopMetronome(s) ==
  [s EXCEPT !.isPlaying = FALSE,
            !.isFullScreen = FALSE,
            !.isCountdown = FALSE,
            !.currentPhase = "in",
            !.timeRemaining = 0,
            !.timers = ClearTimeout(ClearTimeout(@, s.phaseTimeoutRef),
                                    s.countdownTimeoutRef),
            !.phaseTimeoutRef = NullRef,
            !.countdownTimeoutRef = NullRef]

\* History: the timeouts that survive a stop are tagged with the call they
\* survived; the callbacks they schedule inherit the tag.
MarkSurvivors(s, m) ==
  [s EXCEPT !.timers =
     [i \in Slots |->
        IF @[i] # NoTimer /\ @[i].mark = "fresh"
        THEN [@[i] EXCEPT !.mark = m] ELSE @[i]]]

\* restartMetronome: stop, then an untracked timeout that calls
\* startCountdown.
restartMetronome(s, m, cap) ==
  LET s1 == MarkSurvivors(stopMetronome(s), m)
      i == FreeSlot(s1)
  IN [s1 EXCEPT !.timers[i] = NewTimer("restart", 0, RestartDelayMs, "fresh", cap)]

(***************************************************************************)
(* Committing a new component state.  The effect on [isPlaying] creates    *)
(* the 100 ms interval when isPlaying becomes true and clears it when it   *)
(* becomes false.                                                          *)
(***************************************************************************)
\* What React keeps of the state a handler has set: after the unmount the
\* setters of the component do nothing; the refs and the timeouts are
\* plain JavaScript and change as before.
Kept(s) ==
  IF mounted THEN s
  ELSE [s EXCEPT !.isPlaying = isPlaying,
                 !.isFullScreen = isFullScreen,
                 !.isCountdown = isCountdown,
                 !.countdownNumber = countdownNumber,
                 !.currentPhase = currentPhase,
                 !.timeRemaining = timeRemaining]

Commit(s) ==
  /\ isPlaying' = Kept(s).isPlaying
  /\ isFullScreen' = Kept(s).isFullScreen
  /\ isCountdown' = Kept(s).isCountdown
  /\ countdownNumber' = Kept(s).countdownNumber
  /\ currentPhase' = Kept(s).currentPhase
  /\ timeRemaining' = Kept(s).timeRemaining
  /\ phaseTimeoutRef' = s.phaseTimeoutRef
  /\ countdownTimeoutRef' = s.countdownTimeoutRef
  /\ timers' = s.timers
  /\ beep' = s.beep
  /\ ticker' = IF Kept(s).isPlaying
               THEN (IF isPlaying THEN ticker ELSE TickMs)
               ELSE TickerOff
  /\ UNCHANGED << settings, audioBroken, mounted, PanelVars, CalcVars >>

\* History: the call or callback that ran last, the mode it ran in and the
\* tag of the timeout that ran.
Did(op, from, mark) ==
  last' = [op |-> op, from |-> from, mark |-> mark]

(***************************************************************************)
(* Initial state: the component after mount, with the durations and the    *)
(* sound switch as the user has set them in the settings panel.            *)
(***************************************************************************)
Init ==
  /\ isPlaying = FALSE
  /\ isFullScreen = FALSE
  /\ isCountdown = FALSE
  /\ countdownNumber = CountdownFrom
  /\ currentPhase = "in"
  /\ timeRemaining = 0
  /\ settings \in Configs
  /\ phaseTimeoutRef = NullRef
  /\ countdownTimeoutRef = NullRef
  /\ timers = [i \in Slots |-> NoTimer]
  /\ ticker = TickerOff
  /\ audioBroken \in {b \in BOOLEAN : b => settings.soundEnabled}
  /\ beep = NoBeep
  /\ mounted = TRUE
  /\ last = [op |-> "mount", from |-> "Idle", mark |-> "fresh"]
  /\ sinceStart = NoStart
  /\ cyclesDone = 0
  /\ editingBreathIn = FALSE
  /\ editingBreathOut = FALSE
  /\ tempBreathIn = << >>
  /\ tempBreathOut = << >>
  /\ results = << >>
  /\ submitted = << >>

(***************************************************************************)
(* Control calls.                                                          *)
(***************************************************************************)
Start ==
  /\ (Mode(Cur) = "Idle") => HasFree(Cur)
  /\ Commit(startMetronome(Cur, settings))
  /\ Did("startMetronome", Mode(Cur), "fresh")
  /\ sinceStart' = IF Mode(Cur) = "Idle" THEN 0 ELSE sinceStart
  /\ UNCHANGED cyclesDone

Stop ==
  /\ Commit(MarkSurvivors(stopMetronome(Cur), "preStop"))
  /\ Did("stopMetronome", Mode(Cur), "fresh")
  /\ sinceStart' = NoStart
  /\ cyclesDone' = 0

Restart ==
  /\ HasFree(stopMetronome(Cur))
  /\ Commit(restartMetronome(Cur,
              IF isPlaying THEN "preRestart" ELSE "preStop", settings))
  /\ Did("restartMetronome", Mode(Cur), "fresh")
  /\ sinceStart' = NoStart
  /\ cyclesDone' = 0

(***************************************************************************)
(* Timer callbacks.                                                        *)
(***************************************************************************)
Due(i, kind) == timers[i].kind = kind /\ timers[i].remaining = 0

CountdownStep ==
  \E i \in Slots :
    /\ Due(i, "countdown")
    /\ Commit(countdown(Expire(Cur, i), timers[i].num, timers[i].mark, timers[i].cap))
    /\ Did("countdown", Mode(Cur), timers[i].mark)
    /\ UNCHANGED << sinceStart, cyclesDone >>

CountdownEnd ==
  \E i \in Slots :
    /\ Due(i, "begin")
    /\ Commit(beginCallback(Expire(Cur, i), timers[i].mark, timers[i].cap))
    /\ Did("begin", Mode(Cur), timers[i].mark)
    /\ cyclesDone' = IF isPlaying THEN cyclesDone ELSE 0
    /\ UNCHANGED sinceStart

BreathOutFire ==
  \E i \in Slots :
    /\ Due(i, "breathOut")
    /\ Commit(breathOutCallback(Expire(Cur, i), timers[i].mark, timers[i].cap))
    /\ Did("breathOut", Mode(Cur), timers[i].mark)
    /\ UNCHANGED << sinceStart, cyclesDone >>

\* History: cyclesDone counts the exhale phases that have ended in the
\* session since it became Running.
CountCycle ==
  cyclesDone' = IF isPlaying /\ cyclesDone < MaxCycles
                THEN cyclesDone + 1 ELSE cyclesDone

\* The callback at the end of the exhale, ending the session.
NextCycleFire_StopsSession ==
  \E i \in Slots :
    /\ Due(i, "nextCycle")
    /\ Commit(stopMetronome(Expire(Cur, i)))
    /\ Did("nextCycle", Mode(Cur), timers[i].mark)
    /\ CountCycle
    /\ UNCHANGED sinceStart

NextCycleFire ==
  \E i \in Slots :
    /\ Due(i, "nextCycle")
    /\ Commit(startCycle(Expire(Cur, i), timers[i].mark, timers[i].cap))
    /\ Did("nextCycle", Mode(Cur), timers[i].mark)
    /\ CountCycle
    /\ UNCHANGED sinceStart

RestartFire ==
  \E i \in Slots :
    /\ Due(i, "restart")
    /\ Commit(startCountdown(Expire(Cur, i), timers[i].cap))
    /\ Did("restartFire", Mode(Cur), timers[i].mark)
    /\ UNCHANGED << sinceStart, cyclesDone >>

\* The interval callback ending the phase itself when the display timer
\* has run down.
TickFire_SwitchesPhase ==
  /\ ticker = 0
  /\ timeRemaining' = IF timeRemaining <= 100 THEN timeRemaining
                      ELSE timeRemaining - 100
  /\ currentPhase' = IF timeRemaining <= 100
                     THEN (IF currentPhase = "in" THEN "out" ELSE "in")
                     ELSE currentPhase
  /\ ticker' = TickMs
  /\ Did("tick", Mode(Cur), "fresh")
  /\ beep' = NoBeep
  /\ UNCHANGED << isPlaying, isFullScreen, isCountdown, countdownNumber,
                  settings, phaseTimeoutRef,
                  countdownTimeoutRef, timers, audioBroken, mounted, sinceStart,
                  cyclesDone, PanelVars, CalcVars >>

\* The interval callback clamping the decrement at 0.
TickFire_ClampsAtZero ==
  /\ ticker = 0
  /\ timeRemaining' = IF timeRemaining <= 100 THEN 0
                      ELSE timeRemaining - 100
  /\ ticker' = TickMs
  /\ Did("tick", Mode(Cur), "fresh")
  /\ beep' = NoBeep
  /\ UNCHANGED << isPlaying, isFullScreen, isCountdown, countdownNumber,
                  currentPhase, settings, phaseTimeoutRef,
                  countdownTimeoutRef, timers, audioBroken, mounted, sinceStart,
                  cyclesDone, PanelVars, CalcVars >>

\* The interval callback of the [isPlaying] effect.
TickFire ==
  /\ ticker = 0
  /\ timeRemaining' = IF timeRemaining <= 100 THEN timeRemaining
                      ELSE timeRemaining - 100
  /\ ticker' = TickMs
  /\ Did("tick", Mode(Cur), "fresh")
  /\ beep' = NoBeep
  /\ UNCHANGED << isPlaying, isFullScreen, isCountdown, countdownNumber,
                  currentPhase, settings, phaseTimeoutRef,
                  countdownTimeoutRef, timers, audioBroken, mounted, sinceStart,
                  cyclesDone, PanelVars, CalcVars >>

(***************************************************************************)
(* Unmount of the page: React runs the cleanups of the effects.  The       *)
(* cleanup at lines 244-250 clears the timeouts whose handles are in the   *)
(* two refs, the cleanup of the [isPlaying] effect clears the interval.    *)
(***************************************************************************)
Unmount ==
  /\ mounted
  /\ mounted' = FALSE
  /\ timers' = ClearTimeout(ClearTimeout(timers, phaseTimeoutRef),
                            countdownTimeoutRef)
  /\ ticker' = TickerOff
  /\ beep' = NoBeep
  /\ Did("unmount", Mode(Cur), "fresh")
  /\ UNCHANGED << isPlaying, isFullScreen, isCountdown, countdownNumber,
                  currentPhase, timeRemaining, settings, phaseTimeoutRef,
                  countdownTimeoutRef, audioBroken, sinceStart, cyclesDone,
                  PanelVars, CalcVars >>

(***************************************************************************)
(* Passage of time.                                                        *)
(***************************************************************************)
Pending == {i \in Slots : timers[i] # NoTimer}

Advance ==
  /\ \A i \in Pending : timers[i].remaining >= Quantum
  /\ ticker # TickerOff => ticker >= Quantum
  /\ Pending # {} \/ ticker # TickerOff
  /\ timers' = [i \in Slots |->
                  IF timers[i] = NoTimer THEN NoTimer
                  ELSE [timers[i] EXCEPT !.remaining = @ - Quantum]]
  /\ ticker' = IF ticker = TickerOff THEN TickerOff ELSE ticker - Quantum
  /\ sinceStart' = IF sinceStart = NoStart \/ sinceStart > CountdownTotalMs
                   THEN sinceStart ELSE sinceStart + Quantum
  /\ Did("advance", Mode(Cur), "fresh")
  /\ beep' = NoBeep
  /\ UNCHANGED << isPlaying, isFullScreen, isCountdown, countdownNumber,
                  currentPhase, timeRemaining, settings, phaseTimeoutRef,
                  countdownTimeoutRef, audioBroken, mounted, cyclesDone, PanelVars, CalcVars >>

(***************************************************************************)
(* The duration editors of the settings panel.  The text of an editor is   *)
(* a sequence of characters; a number of seconds is held in ms, so that    *)
(* value * 1000 of the program is the number itself.                       *)
(***************************************************************************)
DigitChars == << "0", "1", "2", "3", "4", "5", "6", "7", "8", "9" >>

IsDigit(c) == \E d \in 1..10 : DigitChars[d] = c

DigitValue(c) == (CHOOSE d \in 1..10 : DigitChars[d] = c) - 1

\* The longest prefix of digits of a text.
RECURSIVE DigitPrefix(_)
DigitPrefix(str) ==
  IF str # << >> /\ IsDigit(Head(str))
  THEN << Head(str) >> \o DigitPrefix(Tail(str))
  ELSE << >>

RECURSIVE DigitsValue(_)
DigitsValue(ds) ==
  IF ds = << >> THEN 0
  ELSE 10 * DigitsValue(SubSeq(ds, 1, Len(ds) - 1)) + DigitValue(ds[Len(ds)])

Drop(str, n) == SubSeq(str, n + 1, Len(str))

\* Thousandths given by the first three digits of a fraction.
FractionMs(ds) ==
  DigitsValue(SubSeq(ds \o << "0", "0", "0" >>, 1, 3))

NaN == [isNaN |-> TRUE, ms |-> 0]

\* parseFloat on a text without exponent and with at most three fraction
\* digits: an optional sign, digits, an optional point and digits; what
\* follows is ignored; NaN when there is no digit.
parseFloat(str) ==
  LET neg == str # << >> /\ Head(str) = "-"
      signed == str # << >> /\ Head(str) \in {"-", "+"}
      body == IF signed THEN Tail(str) ELSE str
      whole == DigitPrefix(body)
      rest == Drop(body, Len(whole))
      frac == IF rest # << >> /\ Head(rest) = "."
              THEN DigitPrefix(Tail(rest)) ELSE << >>
      magnitude == 1000 * DigitsValue(whole) + FractionMs(frac)
  IN IF whole = << >> /\ frac = << >> THEN NaN
     ELSE [isNaN |-> FALSE, ms |-> IF neg THEN 0 - magnitude ELSE magnitude]

\* value >= 0.5 && value <= 60 (false for NaN).
Accepted(value) ==
  ~value.isNaN /\ value.ms >= MinBreathMs /\ value.ms <= MaxBreathMs

RECURSIVE NatToString(_)
NatToString(n) ==
  IF n < 10 THEN << DigitChars[n + 1] >>
  ELSE NatToString(n \div 10) \o << DigitChars[(n % 10) + 1] >>

RECURSIVE StripZeros(_)
StripZeros(ds) ==
  IF ds # << >> /\ ds[Len(ds)] = "0"
  THEN StripZeros(SubSeq(ds, 1, Len(ds) - 1)) ELSE ds

\* (ms / 1000).toString() for a whole number of ms.
SecondsToString(ms) ==
  LET f == ms % 1000
      frac == StripZeros(<< DigitChars[(f \div 100) + 1],
                            DigitChars[((f \div 10) % 10) + 1],
                            DigitChars[(f % 10) + 1] >>)
  IN NatToString(ms \div 1000) \o
     (IF frac = << >> THEN << >> ELSE << "." >> \o frac)

\* Texts typed into an editor: empty, not a number, negative, below, at and
\* above the limits, in range.
TextChoices ==
  { << >>, << "a" >>, << "-", "1" >>,
    << "0", ".", "4", "9", "9" >>, << "0", ".", "5" >>, << "2" >>,
    << "6", "0" >>, << "6", "0", ".", "0", "0", "1" >>, << "6", "1" >> }

\* Positions of a slider that are tried: both ends and the first step.
SliderPositions(max) == {SliderMinMs, SliderMinMs + SliderStepMs, max}

\* saveBreathIn applying any number.
saveBreathIn_Unchecked(cfg, temp) ==
  LET value == parseFloat(temp)
  IN IF ~value.isNaN THEN [cfg EXCEPT !.breathInDuration = value.ms] ELSE cfg

\* The settings after saveBreathIn / saveBreathOut.
saveBreathIn(cfg, temp) ==
  LET value == parseFloat(temp)
  IN IF Accepted(value) THEN [cfg EXCEPT !.breathInDuration = value.ms] ELSE cfg

saveBreathOut(cfg, temp) ==
  LET value == parseFloat(temp)
  IN IF Accepted(value) THEN [cfg EXCEPT !.breathOutDuration = value.ms] ELSE cfg

\* What the handlers of the settings panel leave alone.
EngineVars == << isPlaying, isFullScreen, isCountdown, countdownNumber,
                 currentPhase, timeRemaining, phaseTimeoutRef,
                 countdownTimeoutRef, timers, ticker, audioBroken, mounted,
                 sinceStart, cyclesDone >>

StartEditingBreathIn ==
  /\ ~isFullScreen /\ ~editingBreathIn
  /\ editingBreathIn' = TRUE
  /\ tempBreathIn' = SecondsToString(settings.breathInDuration)
  /\ Did("startEditingBreathIn", Mode(Cur), "fresh")
  /\ beep' = NoBeep
  /\ UNCHANGED << EngineVars, CalcVars, settings, editingBreathOut, tempBreathOut >>

StartEditingBreathOut ==
  /\ ~isFullScreen /\ ~editingBreathOut
  /\ editingBreathOut' = TRUE
  /\ tempBreathOut' = SecondsToString(settings.breathOutDuration)
  /\ Did("startEditingBreathOut", Mode(Cur), "fresh")
  /\ beep' = NoBeep
  /\ UNCHANGED << EngineVars, CalcVars, settings, editingBreathIn, tempBreathIn >>

TypeBreathIn ==
  /\ ~isFullScreen /\ editingBreathIn
  /\ \E text \in TextChoices : tempBreathIn' = text
  /\ Did("typeBreathIn", Mode(Cur), "fresh")
  /\ beep' = NoBeep
  /\ UNCHANGED << EngineVars, CalcVars, settings, editingBreathIn, editingBreathOut,
                  tempBreathOut >>

TypeBreathOut ==
  /\ ~isFullScreen /\ editingBreathOut
  /\ \E text \in TextChoices : tempBreathOut' = text
  /\ Did("typeBreathOut", Mode(Cur), "fresh")
  /\ beep' = NoBeep
  /\ UNCHANGED << EngineVars, CalcVars, settings, editingBreathIn, editingBreathOut,
                  tempBreathIn >>

\* saveBreathIn that leaves the editor open when the text is rejected.
SaveBreathIn_StaysOpenOnReject ==
  /\ ~isFullScreen /\ editingBreathIn
  /\ settings' = saveBreathIn(settings, tempBreathIn)
  /\ editingBreathIn' = ~Accepted(parseFloat(tempBreathIn))
  /\ Did("saveBreathIn", Mode(Cur), "fresh")
  /\ beep' = NoBeep
  /\ UNCHANGED << EngineVars, CalcVars, editingBreathOut, tempBreathIn, tempBreathOut >>

SaveBreathIn ==
  /\ ~isFullScreen /\ editingBreathIn
  /\ settings' = saveBreathIn(settings, tempBreathIn)
  /\ editingBreathIn' = FALSE
  /\ Did("saveBreathIn", Mode(Cur), "fresh")
  /\ beep' = NoBeep
  /\ UNCHANGED << EngineVars, CalcVars, editingBreathOut, tempBreathIn, tempBreathOut >>

SaveBreathOut ==
  /\ ~isFullScreen /\ editingBreathOut
  /\ settings' = saveBreathOut(settings, tempBreathOut)
  /\ editingBreathOut' = FALSE
  /\ Did("saveBreathOut", Mode(Cur), "fresh")
  /\ beep' = NoBeep
  /\ UNCHANGED << EngineVars, CalcVars, editingBreathIn, tempBreathIn, tempBreathOut >>

CancelEdit ==
  /\ ~isFullScreen /\ (editingBreathIn \/ editingBreathOut)
  /\ editingBreathIn' = FALSE
  /\ editingBreathOut' = FALSE
  /\ Did("cancelEdit", Mode(Cur), "fresh")
  /\ beep' = NoBeep
  /\ UNCHANGED << EngineVars, CalcVars, settings, tempBreathIn, tempBreathOut >>

SlideBreathIn ==
  /\ ~isFullScreen /\ ~editingBreathIn
  /\ \E value \in SliderPositions(BreathInSliderMaxMs) :
        settings' = [settings EXCEPT !.breathInDuration = value]
  /\ Did("slideBreathIn", Mode(Cur), "fresh")
  /\ beep' = NoBeep
  /\ UNCHANGED << EngineVars, CalcVars, PanelVars >>

SlideBreathOutTo(value) ==
  /\ ~isFullScreen /\ ~editingBreathOut
  /\ settings' = [settings EXCEPT !.breathOutDuration = value]
  /\ Did("slideBreathOut", Mode(Cur), "fresh")
  /\ beep' = NoBeep
  /\ UNCHANGED << EngineVars, CalcVars, PanelVars >>

SlideBreathOut ==
  \E value \in SliderPositions(BreathOutSliderMaxMs) : SlideBreathOutTo(value)

\* The Sound switch of the settings page.
ToggleSound ==
  /\ ~isFullScreen
  /\ settings' = [settings EXCEPT !.soundEnabled = ~@]
  /\ Did("toggleSound", Mode(Cur), "fresh")
  /\ beep' = NoBeep
  /\ UNCHANGED << EngineVars, CalcVars, PanelVars >>

\* The breath-out slider moved between its two lowest positions.
SlideBreathOutLow ==
  \E value \in {SliderMinMs, SliderMinMs + SliderStepMs} :
     SlideBreathOutTo(value)

(***************************************************************************)
(* The calculator of src/unnamed/part_000 (VO2MaxCalculator).  Numbers are *)
(* exact fractions n/d in lowest terms with d > 0, so that no step of the  *)
(* evaluation rounds; toFixed(4) is the only rounding.                     *)
(***************************************************************************)
Abs(x) == IF x < 0 THEN 0 - x ELSE x

RECURSIVE Gcd(_, _)
Gcd(a, b) == IF b = 0 THEN a ELSE Gcd(b, a % b)

Rat(n, d) ==
  LET g == Gcd(Abs(n), Abs(d))
      s == IF d < 0 THEN 0 - 1 ELSE 1
  IN [n |-> s * (n \div g), d |-> s * (d \div g)]

Whole(k) == [n |-> k, d |-> 1]

RAdd(a, b) ==
  LET g == Gcd(a.d, b.d)
  IN Rat(a.n * (b.d \div g) + b.n * (a.d \div g), (a.d \div g) * b.d)

RNeg(a) == [n |-> 0 - a.n, d |-> a.d]

RSub(a, b) == RAdd(a, RNeg(b))

RMul(a, b) ==
  LET g1 == Gcd(Abs(a.n), b.d)
      g2 == Gcd(Abs(b.n), a.d)
  IN IF a.n = 0 \/ b.n = 0 THEN Whole(0)
     ELSE [n |-> (a.n \div g1) * (b.n \div g2),
           d |-> (a.d \div g2) * (b.d \div g1)]

RInv(a) == IF a.n < 0 THEN [n |-> 0 - a.d, d |-> 0 - a.n]
           ELSE [n |-> a.d, d |-> a.n]

RDiv(a, b) == RMul(a, RInv(b))

RLe(a, b) == RSub(a, b).n <= 0

\* Number.prototype.toFixed(4) of a number that is not negative, as the
\* count of ten-thousandths (ties away from zero).
ToFixed4(a) ==
  LET whole == a.n \div a.d
      rem == a.n % a.d
  IN whole * 10000 + (2 * 10000 * rem + a.d) \div (2 * a.d)

\* Values of the form that are submitted: ages (0 for an age that is
\* missing), weights (kg), heights (m), PAR scores and the two sexes.
AgeChoices == {Whole(0), Whole(20), Whole(25), Whole(60)}
WeightChoices == {Whole(50), Whole(70), Whole(90), Whole(180)}
HeightChoices == {Rat(150, 100), Rat(175, 100), Rat(200, 100)}
ParChoices == {Whole(0), Whole(8), Whole(15)}
SexChoices == {Whole(0), Whole(1)}

FormValues ==
  [age : AgeChoices, weight : WeightChoices, height : HeightChoices,
   par : ParChoices, sex : SexChoices]

\* formSchema: the values for which handleSubmit calls onSubmit.
formSchema(values) ==
  /\ RLe(Whole(1), values.age) /\ RLe(values.age, Whole(150))
  /\ RLe(Whole(1), values.weight)
  /\ RLe(Rat(1, 10), values.height)
  /\ RLe(Whole(0), values.par) /\ RLe(values.par, Whole(15))
  /\ RLe(Whole(0), values.sex) /\ RLe(values.sex, Whole(1))

\* The early return of onSubmit: a value that is missing or zero.
Missing(values) ==
  values.age.n = 0 \/ values.weight.n = 0 \/ values.height.n = 0

\* The record onSubmit passes to setResults.
Results(bmi, vo2maxEstimate, values) ==
  LET wmaxEstimate ==
        RDiv(RDiv(RMul(RSub(vo2maxEstimate, Whole(7)), values.weight),
                  Rat(18, 10)),
             Rat(612, 100))
      stage1Power == RMul(wmaxEstimate, Rat(25, 100))
      subsequentPower == RDiv(RSub(wmaxEstimate, stage1Power), Whole(8))
      predictedVo2max ==
        RSub(RSub(RSub(Rat(799, 10), RMul(Rat(39, 100), values.age)),
                  RMul(Rat(137, 10), values.sex)),
             RMul(Rat(127, 1000), RMul(values.weight, Rat(22, 10))))
  IN [bmi |-> bmi,
      vo2maxEstimate |-> vo2maxEstimate,
      wmaxEstimate |-> wmaxEstimate,
      stage1Power |-> stage1Power,
      subsequentPower |-> subsequentPower,
      predictedVo2max |-> predictedVo2max,
      trainedVo2max |-> RMul(predictedVo2max, Rat(12, 10)),
      untrainedLowerBound |-> RMul(predictedVo2max, Rat(8, 10)),
      untrainedUpperBound |-> RMul(predictedVo2max, Rat(10, 10))]

\* The estimate of onSubmit from a given bmi.
Vo2maxEstimate(bmi, values) ==
  RAdd(RSub(RSub(RAdd(Rat(56363, 1000), RMul(Rat(1921, 1000), values.par)),
                 RMul(Rat(381, 1000), values.age)),
            RMul(Rat(754, 1000), bmi)),
       RMul(Rat(10987, 1000), values.sex))

\* onSubmit computing the estimate from the bmi as displayed (4 decimals).
onSubmit_RoundsBmi(values) ==
  LET bmi == RDiv(values.weight, RMul(values.height, values.height))
  IN Results(bmi, Vo2maxEstimate(Rat(ToFixed4(bmi), 10000), values), values)

\* onSubmit with the bmi taken as weight / height.
onSubmit_HeightNotSquared(values) ==
  LET bmi == RDiv(values.weight, values.height)
  IN Results(bmi, Vo2maxEstimate(bmi, values), values)

onSubmit(values) ==
  LET bmi == RDiv(values.weight, RMul(values.height, values.height))
  IN Results(bmi, Vo2maxEstimate(bmi, values), values)

\* What the calculator leaves alone: the pacer.
PacerVars == << EngineVars, settings, PanelVars >>

\* Submit of the form: handleSubmit validates, then onSubmit.
Submit ==
  \E values \in FormValues :
    /\ IF formSchema(values) /\ ~Missing(values)
       THEN /\ results' = << onSubmit(values) >>
            /\ submitted' = << values >>
       ELSE UNCHANGED << results, submitted >>
    /\ Did("onSubmit", Mode(Cur), "fresh")
    /\ beep' = NoBeep
    /\ UNCHANGED PacerVars

(***************************************************************************)
(* The buttons as rendered: Start on the settings page, Stop on the        *)
(* full-screen page, Restart on the full-screen page outside the countdown.*)
(***************************************************************************)
ClickStart == ~isFullScreen /\ Start

ClickStop == isFullScreen /\ Stop

ClickRestart == isFullScreen /\ ~isCountdown /\ Restart

Callbacks ==
  \/ CountdownStep
  \/ CountdownEnd
  \/ BreathOutFire
  \/ NextCycleFire
  \/ RestartFire
  \/ TickFire

\* The handlers called in any state (the engine's control surface).
Next ==
  \/ Start
  \/ Stop
  \/ Restart
  \/ CountdownStep
  \/ CountdownEnd
  \/ BreathOutFire
  \/ NextCycleFire
  \/ RestartFire
  \/ TickFire
  \/ Advance

Spec == Init /\ [][Next]_vars

\* The handlers called through the buttons the page shows.
NextUi ==
  \/ ClickStart
  \/ ClickStop
  \/ ClickRestart
  \/ CountdownStep
  \/ CountdownEnd
  \/ BreathOutFire
  \/ NextCycleFire
  \/ RestartFire
  \/ TickFire
  \/ Advance

SpecUi == Init /\ [][NextUi]_vars

\* The page as rendered, with the breath-out slider of the settings page,
\* from one configuration (0.5 s in, 1 s out, sound off).
InitUiEdit ==
  /\ Init
  /\ settings = [breathInDuration |-> 500, breathOutDuration |-> 1000,
                 soundEnabled |-> FALSE]

NextUiEdit ==
  \/ ClickStart
  \/ ClickStop
  \/ ClickRestart
  \/ CountdownStep
  \/ CountdownEnd
  \/ BreathOutFire
  \/ NextCycleFire
  \/ RestartFire
  \/ TickFire
  \/ Advance
  \/ SlideBreathOutLow

SpecUiEdit == InitUiEdit /\ [][NextUiEdit]_vars

\* The pacer as the page offers it, with timers that fire: a timeout or an
\* interval tick that is due is run by the event loop, and time passes.
Fairness ==
  /\ WF_vars(CountdownStep)
  /\ WF_vars(CountdownEnd)
  /\ WF_vars(BreathOutFire)
  /\ WF_vars(NextCycleFire)
  /\ WF_vars(RestartFire)
  /\ WF_vars(TickFire)
  /\ WF_vars(Advance)

SpecUiFair == Init /\ [][NextUi]_vars /\ Fairness

\* The pacer as the page offers it until the page is unmounted; the
\* timeouts that are left run afterwards.
NextUiUnmount ==
  \/ mounted /\ ClickStart
  \/ mounted /\ ClickStop
  \/ mounted /\ ClickRestart
  \/ Unmount
  \/ CountdownStep
  \/ CountdownEnd
  \/ BreathOutFire
  \/ NextCycleFire
  \/ RestartFire
  \/ TickFire
  \/ Advance

SpecUiUnmount == Init /\ [][NextUiUnmount]_vars

\* The pacer as the page offers it, with the Sound switch, from the
\* durations 0.5 s / 1 s.
InitUiSound ==
  /\ Init
  /\ settings.breathInDuration = 500
  /\ settings.breathOutDuration = 1000

NextUiSound ==
  \/ ClickStart
  \/ ClickStop
  \/ ClickRestart
  \/ CountdownStep
  \/ CountdownEnd
  \/ BreathOutFire
  \/ NextCycleFire
  \/ RestartFire
  \/ TickFire
  \/ Advance
  \/ ToggleSound

SpecUiSound == InitUiSound /\ [][NextUiSound]_vars

\* The settings panel alone: the duration editors and the sliders.
NextEdit ==
  \/ StartEditingBreathIn
  \/ StartEditingBreathOut
  \/ TypeBreathIn
  \/ TypeBreathOut
  \/ SaveBreathIn
  \/ SaveBreathOut
  \/ CancelEdit
  \/ SlideBreathIn
  \/ SlideBreathOut

SpecEdit == Init /\ [][NextEdit]_vars

\* The calculator page.
NextCalc == Submit

SpecCalc == Init /\ [][NextCalc]_vars

Settled == \A i \in Slots : timers[i] # NoTimer => timers[i].remaining > 0

TimerOps == {"countdown", "begin", "breathOut", "nextCycle", "restartFire"}

PhaseOps == {"breathOut", "nextCycle"}

TypeOK ==
  /\ isPlaying \in BOOLEAN
  /\ beep \in {NoBeep, InhaleHz, ExhaleHz}
  /\ mounted \in BOOLEAN
  /\ isFullScreen \in BOOLEAN
  /\ isCountdown \in BOOLEAN
  /\ countdownNumber \in 0..CountdownFrom
  /\ currentPhase \in {"in", "out"}
  /\ timeRemaining \in Nat
  /\ phaseTimeoutRef \in Slots \cup {NullRef, FiredRef}
  /\ countdownTimeoutRef \in Slots \cup {NullRef, FiredRef}
  /\ ticker \in {TickerOff} \cup 0..TickMs
  /\ sinceStart \in {NoStart} \cup 0..(CountdownTotalMs + Quantum)
  /\ cyclesDone \in 0..MaxCycles
  /\ editingBreathIn \in BOOLEAN
  /\ editingBreathOut \in BOOLEAN
  /\ tempBreathIn \in Seq(STRING)
  /\ tempBreathOut \in Seq(STRING)
  /\ Len(results) <= 1
  /\ Len(submitted) = Len(results)

(***************************************************************************)
(* Properties.                                                             *)
(***************************************************************************)

\* C1: after start() in Idle with no stop or restart since, the engine is
\* Running exactly from CountdownTotalMs (4000 ms) after the call, not
\* before, and it enters Running in the 'in' phase.
C1_RunningExactlyAfterCountdown ==
  (sinceStart # NoStart /\ Settled) =>
     /\ isPlaying <=> sinceStart >= CountdownTotalMs
     /\ (sinceStart = CountdownTotalMs /\ isPlaying) => currentPhase = "in"

\* C2: the session starts in 'in', and every phase callback that runs
\* while Running changes currentPhase to the other phase.
C2_PhasesAlternate ==
  [][ /\ last'.op = "begin" => currentPhase' = "in"
      /\ (last'.op \in PhaseOps /\ isPlaying) => currentPhase' # currentPhase
    ]_vars

\* C3: the Running flag is cleared only by stopMetronome, called directly
\* or from restartMetronome; no timer callback ends the session.
C3_OnlyStopLeavesRunning ==
  [][ (isPlaying /\ ~isPlaying') =>
         last'.op \in {"stopMetronome", "restartMetronome"} ]_vars

\* C3 witness: a whole cycle has completed and the session is still Running.
C3_Witness == isPlaying /\ last.op = "nextCycle" /\ last.from = "Running"

\* C4: no timeout that was pending when stop() returned runs afterwards.
C4_NoCallbackSurvivesStop ==
  last.op \in TimerOps => last.mark = "fresh"

\* C5: after restart() in a Running session no phase callback of the
\* pre-restart run is performed.
C5_NoPhaseCallbackOfPreRestartRun ==
  last.op \in PhaseOps => last.mark # "preRestart"

\* C6: at most one deferred transition callback (countdown step or phase
\* transition) is pending.
C6_OneTransitionPending ==
  Cardinality({i \in Slots : timers[i].kind \in TransitionKinds}) <= 1

\* C7: when the delay of restart() expires the effect is that of start():
\* startCountdown if the engine is Idle, nothing otherwise.
C7_RestartDelayIsGuardedStart ==
  [][ last'.op = "restartFire" =>
        \E i \in Slots :
           /\ Due(i, "restart")
           /\ Cur' = startMetronome(Expire(Cur, i), timers[i].cap) ]_vars

\* C8: in every state stop() after stop() gives what one stop() gives, and
\* stop() in Idle changes nothing.
C8_StopIdempotentAndIdleNoop ==
  /\ stopMetronome(stopMetronome(Cur)) = stopMetronome(Cur)
  /\ Mode(Cur) = "Idle" => stopMetronome(Cur) = Cur

\* C9: start() while Countdown or Running changes nothing: no state of the
\* component, no pending timeout, not the display interval.
C9_StartWhileActiveIsNoop ==
  [][ (last'.op = "startMetronome" /\ (isPlaying \/ isCountdown)) =>
         (Cur' = Cur /\ ticker' = ticker) ]_vars

\* C9 witness: start() has been called during the countdown of a start().
C9_Witness ==
  /\ last.op = "startMetronome"
  /\ last.from = "Countdown"
  /\ isCountdown
  /\ countdownNumber < CountdownFrom

\* C10: whether or not the tone succeeds, a phase that has just been
\* entered in a Running session has its phase callback pending.
C10_PhaseCallbackArmedDespiteAudio ==
  (isPlaying /\ last.op \in {"begin", "breathOut", "nextCycle"}) =>
     \E i \in Slots : timers[i].kind \in PhaseKinds

\* C11: when stop() returns the engine is Idle and currentPhase,
\* timeRemaining and countdownNumber all have the values they had before
\* the first start() ('in', 0, CountdownFrom).
C11_StopClearsRunFields ==
  last.op = "stopMetronome" =>
     /\ Mode(Cur) = "Idle"
     /\ currentPhase = "in"
     /\ timeRemaining = 0
     /\ countdownNumber = CountdownFrom

\* C11 amended: when stop() returns the engine is Idle, not full screen,
\* with currentPhase 'in', timeRemaining 0 and both timeout refs null;
\* countdownNumber is not written by stop(), and a start() in Idle sets it
\* to CountdownFrom.
C11_StopClearsPhaseFields ==
  /\ last.op = "stopMetronome" =>
        /\ Mode(Cur) = "Idle"
        /\ ~isFullScreen
        /\ currentPhase = "in"
        /\ timeRemaining = 0
        /\ phaseTimeoutRef = NullRef
        /\ countdownTimeoutRef = NullRef
  /\ (last.op = "startMetronome" /\ last.from = "Idle") =>
        countdownNumber = CountdownFrom

\* C11 witness: stop() has returned from a Running session and
\* countdownNumber still holds the last number of the countdown.
C11_Witness ==
  /\ last.op = "stopMetronome"
  /\ last.from = "Running"
  /\ countdownNumber = 0
  /\ currentPhase = "in"
  /\ timeRemaining = 0

C13_DurationsStayInRange ==
  /\ [](/\ settings.breathInDuration \in MinBreathMs..MaxBreathMs
        /\ settings.breathOutDuration \in MinBreathMs..MaxBreathMs)
  /\ [][ /\ (last'.op = "saveBreathIn" /\ ~Accepted(parseFloat(tempBreathIn)))
             => settings' = settings
         /\ (last'.op = "saveBreathOut" /\ ~Accepted(parseFloat(tempBreathOut)))
             => settings' = settings ]_vars

\* C13 witness: both limits have been saved and the last save, of a text
\* above the range, was not applied.
C13_Witness ==
  /\ last.op = "saveBreathIn"
  /\ tempBreathIn = << "6", "0", ".", "0", "0", "1" >>
  /\ settings.breathInDuration = MaxBreathMs
  /\ settings.breathOutDuration = MinBreathMs

\* C14: the nine outputs shown are the reference formulas applied in
\* order to the submitted values and to the unrounded outputs before them:
\* bmi * height^2 = weight; 1000 * vo2maxEstimate = 56363 + 1921 PAR -
\* 381 age - 754 bmi + 10987 sex; wmaxEstimate * 1.8 * 6.12 =
\* (vo2maxEstimate - 7) * weight; 4 * stage1Power = wmaxEstimate;
\* 8 * subsequentPower = wmaxEstimate - stage1Power; 10000 *
\* predictedVo2max = 799000 - 3900 age - 137000 sex - 2794 weight;
\* 5 * trained = 6 * predicted; 5 * untrainedLower = 4 * predicted;
\* untrainedUpper = predicted.
C14_OutputsAreReferenceFormulas ==
  results # << >> =>
    LET r == results[1]
        v == submitted[1]
    IN /\ formSchema(v)
       /\ RMul(r.bmi, RMul(v.height, v.height)) = v.weight
       /\ RMul(Whole(1000), r.vo2maxEstimate) =
            RSub(RAdd(Whole(56363),
                      RAdd(RMul(Whole(1921), v.par), RMul(Whole(10987), v.sex))),
                 RAdd(RMul(Whole(381), v.age), RMul(Whole(754), r.bmi)))
       /\ RMul(r.wmaxEstimate, Rat(1377, 125)) =
            RMul(RSub(r.vo2maxEstimate, Whole(7)), v.weight)
       /\ RMul(Whole(4), r.stage1Power) = r.wmaxEstimate
       /\ RAdd(RMul(Whole(8), r.subsequentPower), r.stage1Power) = r.wmaxEstimate
       /\ RMul(Whole(10000), r.predictedVo2max) =
            RSub(Whole(799000),
                 RAdd(RMul(Whole(3900), v.age),
                      RAdd(RMul(Whole(137000), v.sex), RMul(Whole(2794), v.weight))))
       /\ RMul(Whole(5), r.trainedVo2max) = RMul(Whole(6), r.predictedVo2max)
       /\ RMul(Whole(5), r.untrainedLowerBound) = RMul(Whole(4), r.predictedVo2max)
       /\ r.untrainedUpperBound = r.predictedVo2max

\* C14 witness: results are shown for a female of 90 kg and 1.75 m, whose
\* bmi (1440/49) has no finite decimal expansion.
C14_Witness ==
  /\ results # << >>
  /\ submitted[1].sex = Whole(0)
  /\ results[1].bmi = [n |-> 1440, d |-> 49]

\* The form values of the worked example: age 25, 70 kg, 1.75 m, PAR 8,
\* male.
ExampleValues ==
  [age |-> Whole(25), weight |-> Whole(70), height |-> Rat(175, 100),
   par |-> Whole(8), sex |-> Whole(1)]

\* C15: for the example the calculator shows, to 4 decimals, bmi = 22.8571
\* and vo2maxEstimate = 56.0000, the sum of 56.363 + 15.368 - 9.525 -
\* 17.242 + 10.987 with 17.242 for 0.754 * bmi.
C15_ExampleGives56 ==
  (results # << >> /\ submitted[1] = ExampleValues) =>
     /\ ToFixed4(results[1].bmi) = 228571
     /\ ToFixed4(RMul(Rat(754, 1000), results[1].bmi)) = 172420
     /\ ToFixed4(results[1].vo2maxEstimate) = 560000

\* C15 amended: for the example the calculator shows, to 4 decimals,
\* bmi = 22.8571, 0.754 * bmi = 17.2343 and vo2maxEstimate = 55.9587, and
\* from them wmaxEstimate = 311.1029, stage1Power = 77.7757,
\* subsequentPower = 29.1659, predictedVo2max = 36.8920, trained = 44.2704,
\* untrainedLower = 29.5136 and untrainedUpper = 36.8920.
C15_ExampleOutputs ==
  (results # << >> /\ submitted[1] = ExampleValues) =>
     LET r == results[1]
     IN /\ ToFixed4(r.bmi) = 228571
        /\ ToFixed4(RMul(Rat(754, 1000), r.bmi)) = 172343
        /\ ToFixed4(r.vo2maxEstimate) = 559587
        /\ ToFixed4(r.wmaxEstimate) = 3111029
        /\ ToFixed4(r.stage1Power) = 777757
        /\ ToFixed4(r.subsequentPower) = 291659
        /\ ToFixed4(r.predictedVo2max) = 368920
        /\ ToFixed4(r.trainedVo2max) = 442704
        /\ ToFixed4(r.untrainedLowerBound) = 295136
        /\ ToFixed4(r.untrainedUpperBound) = 368920

\* C15 witness: the results of the example are shown.
C15_Witness ==
  /\ results # << >>
  /\ submitted[1] = ExampleValues
  /\ last.op = "onSubmit"

\* C16: a countdown starts at CountdownFrom; while it lasts countdownNumber
\* changes only by going down by one (3, 2, 1, 0: never up, never
\* skipping); and the engine becomes Running only when 0 is displayed, by
\* the callback that ends the countdown.
C16_CountdownInOrder ==
  [][ /\ (~isCountdown /\ isCountdown') => countdownNumber' = CountdownFrom
      /\ (isCountdown /\ isCountdown' /\ countdownNumber' # countdownNumber)
           => countdownNumber' = countdownNumber - 1
      /\ (~isPlaying /\ isPlaying')
           => (countdownNumber = 0 /\ last'.op = "begin") ]_vars

C18_PhaseLastsItsDuration ==
  /\ last.op \in {"begin", "nextCycle"} =>
       /\ currentPhase = "in"
       /\ timeRemaining = settings.breathInDuration
       /\ \E i \in Slots : /\ timers[i].kind = "breathOut"
                           /\ timers[i].remaining = settings.breathInDuration
  /\ last.op = "breathOut" =>
       /\ currentPhase = "out"
       /\ timeRemaining = settings.breathOutDuration
       /\ \E i \in Slots : /\ timers[i].kind = "nextCycle"
                           /\ timers[i].remaining = settings.breathOutDuration

\* The configured duration of the current phase.
PhaseDuration ==
  IF currentPhase = "in" THEN settings.breathInDuration
  ELSE settings.breathOutDuration

\* C19: in every state 0 <= timeRemaining <= the configured duration of
\* the current phase.
C19_RemainingWithinPhase ==
  timeRemaining >= 0 /\ timeRemaining <= PhaseDuration

\* C20: every tick of the 100 ms interval sets timeRemaining to
\* max(0, timeRemaining - 100).
C20_TickClampsAtZero ==
  [][ last'.op = "tick" =>
        timeRemaining' = IF timeRemaining - TickMs > 0
                         THEN timeRemaining - TickMs ELSE 0 ]_vars

\* C20 amended: every tick takes TickMs off timeRemaining when it is above
\* TickMs and leaves it as it is otherwise, so that in a Running session
\* the display timer stops at TickMs and is never 0.
C20_TickStopsAtTickMs ==
  /\ [][ last'.op = "tick" =>
           timeRemaining' = IF timeRemaining > TickMs
                            THEN timeRemaining - TickMs ELSE timeRemaining ]_vars
  /\ [](isPlaying => timeRemaining >= TickMs)

\* C20 witness: the tick at the end of a phase (the phase callback is due)
\* has left timeRemaining at TickMs.
C20_Witness ==
  /\ isPlaying
  /\ last.op = "tick"
  /\ timeRemaining = TickMs
  /\ \E i \in Slots : timers[i].kind \in PhaseKinds /\ timers[i].remaining = 0

\* C21: a tick of the display interval changes timeRemaining only: the
\* phase, the flags, countdownNumber, the pending timeouts and the two
\* refs are as before.
C21_TickChangesOnlyTimeRemaining ==
  [][ last'.op = "tick" =>
        UNCHANGED << currentPhase, isPlaying, isCountdown, isFullScreen,
                     countdownNumber, timers, phaseTimeoutRef,
                     countdownTimeoutRef, settings >> ]_vars

\* C21 witness: a tick has run in the exhale at the end of the phase (the
\* next-cycle callback is due) and the phase is still 'out'.
C21_Witness ==
  /\ last.op = "tick"
  /\ isPlaying
  /\ currentPhase = "out"
  /\ \E i \in Slots : timers[i].kind = "nextCycle" /\ timers[i].remaining = 0

\* The display interval exists exactly while isPlaying is set, a tick runs
\* only in a Running engine, and when stop() returns the interval is gone
\* and timeRemaining is 0.
TickerOnlyWhileRunning ==
  /\ (ticker # TickerOff) <=> isPlaying
  /\ last.op = "tick" => (last.from = "Running" /\ isPlaying)
  /\ last.op \in {"stopMetronome", "restartMetronome"} =>
       (ticker = TickerOff /\ timeRemaining = 0)

\* The session that is running descends from timeouts that were pending
\* when stop() returned: no start() has taken effect since, and every
\* pending timeout carries the tag of a stop.
RunsAfterStop ==
  /\ sinceStart = NoStart
  /\ Pending # {}
  /\ \A i \in Pending : timers[i].mark = "preStop"

\* C22 (as stated): the interval exists exactly while the engine is
\* Running, a tick runs only in a Running engine, and once stop() has
\* returned no tick changes timeRemaining before the next start().
C22_NoTickAfterStop ==
  /\ []TickerOnlyWhileRunning
  /\ [][ (last'.op = "tick" /\ timeRemaining' # timeRemaining) =>
            ~RunsAfterStop ]_vars

\* The timeouts that a step has armed: pending afterwards, not the same
\* as before, and not a survivor that was only re-tagged.
Armed(j) ==
  /\ timers'[j] # NoTimer
  /\ timers'[j] # timers[j]
  /\ (timers[j] = NoTimer \/ timers'[j].kind # timers[j].kind
        \/ timers'[j].remaining # timers[j].remaining)

\* A control call arms its timeout with the settings of the call; a
\* callback hands the settings it was armed with to the timeout it arms;
\* a phase lasts, and timeRemaining starts at, the duration of those
\* settings.
RunKeepsItsSettings ==
  /\ last'.op \in {"startMetronome", "restartMetronome"} =>
       \A j \in Slots : Armed(j) => timers'[j].cap = settings
  /\ last'.op \in TimerOps =>
       \E i \in Slots :
         /\ timers[i] # NoTimer /\ timers[i].remaining = 0
         /\ \A j \in Slots : Armed(j) =>
              /\ timers'[j].cap = timers[i].cap
              /\ timers'[j].kind = "breathOut" =>
                   /\ timers'[j].remaining = timers[i].cap.breathInDuration
                   /\ timeRemaining' = timers[i].cap.breathInDuration
              /\ timers'[j].kind = "nextCycle" =>
                   /\ timers'[j].remaining = timers[i].cap.breathOutDuration
                   /\ timeRemaining' = timers[i].cap.breathOutDuration

\* C23: the durations change only while the engine is Idle, and every
\* phase of a run lasts the duration that was configured when the run's
\* start() or restart() was called.
C23_SettingsFixedPerRun ==
  [][ /\ (settings' # settings => Mode(Cur) = "Idle")
      /\ RunKeepsItsSettings ]_vars


\* C24 (as stated): after a save that is rejected the setting is as before
\* and the editor of that field is still open.
C24_RejectedSaveKeepsEditorOpen ==
  [][ /\ (last'.op = "saveBreathIn" /\ ~Accepted(parseFloat(tempBreathIn)))
          => (settings' = settings /\ editingBreathIn')
      /\ (last'.op = "saveBreathOut" /\ ~Accepted(parseFloat(tempBreathOut)))
          => (settings' = settings /\ editingBreathOut') ]_vars

\* C24 (amended): after a save that is rejected the setting is as before
\* and the editor of that field is closed, as after a save that is applied;
\* the other editor is as it was.
C24_RejectedSaveClosesEditor ==
  [][ /\ (last'.op = "saveBreathIn" /\ ~Accepted(parseFloat(tempBreathIn)))
          => /\ settings' = settings
             /\ ~editingBreathIn'
             /\ editingBreathOut' = editingBreathOut
      /\ (last'.op = "saveBreathOut" /\ ~Accepted(parseFloat(tempBreathOut)))
          => /\ settings' = settings
             /\ ~editingBreathOut'
             /\ editingBreathIn' = editingBreathIn ]_vars

\* C24 witness: the text "a" has been saved in the breath-in editor; the
\* editor is closed and the breath-out editor is still open.
C24_Witness ==
  /\ last.op = "saveBreathIn"
  /\ tempBreathIn = << "a" >>
  /\ ~editingBreathIn
  /\ editingBreathOut

\* C25: the step that enters a phase starts the tone of that phase if
\* sound is enabled and no tone if it is disabled (where the audio API
\* works); no other step starts a tone, none is started while sound is
\* disabled, and none during the countdown.
C25_ToneIffSoundEnabled ==
  /\ (~audioBroken /\ last.op \in {"begin", "nextCycle"}) =>
        beep = (IF settings.soundEnabled THEN InhaleHz ELSE NoBeep)
  /\ (~audioBroken /\ last.op = "breathOut") =>
        beep = (IF settings.soundEnabled THEN ExhaleHz ELSE NoBeep)
  /\ last.op \notin {"begin", "nextCycle", "breathOut"} => beep = NoBeep
  /\ ~settings.soundEnabled => beep = NoBeep
  /\ isCountdown => beep = NoBeep

\* The same settings with the Sound switch on or off.
WithSound(cap, b) == [cap EXCEPT !.soundEnabled = b]

\* What an observer of the timing sees of a component state: everything
\* but the tone and the Sound switch carried by the pending timeouts.
Timing(s) ==
  [s EXCEPT !.beep = NoBeep,
            !.timers = [i \in Slots |->
                          IF @[i] = NoTimer THEN NoTimer
                          ELSE [@[i] EXCEPT !.cap = WithSound(@, FALSE)]]]

\* C26: two runs with the same durations and the same calls that differ in
\* the Sound switch show the same flags, countdownNumber, phase,
\* timeRemaining and pending timeouts at the same times.  Both runs stay
\* in step if every call and every callback, taken in the same state with
\* sound on and with sound off, leaves the same timing.
C26_TimingIndependentOfSound ==
  /\ HasFree(Cur) =>
       Timing(startMetronome(Cur, WithSound(settings, TRUE)))
         = Timing(startMetronome(Cur, WithSound(settings, FALSE)))
  /\ HasFree(stopMetronome(Cur)) =>
       Timing(restartMetronome(Cur, "preStop", WithSound(settings, TRUE)))
         = Timing(restartMetronome(Cur, "preStop", WithSound(settings, FALSE)))
  /\ \A i \in Slots :
       (timers[i] # NoTimer /\ timers[i].remaining = 0) =>
         LET e == Expire(Cur, i)
             m == timers[i].mark
             on == WithSound(timers[i].cap, TRUE)
             off == WithSound(timers[i].cap, FALSE)
         IN /\ timers[i].kind = "countdown" =>
                 Timing(countdown(e, timers[i].num, m, on))
                   = Timing(countdown(e, timers[i].num, m, off))
            /\ timers[i].kind = "begin" =>
                 Timing(beginCallback(e, m, on)) = Timing(beginCallback(e, m, off))
            /\ timers[i].kind = "breathOut" =>
                 Timing(breathOutCallback(e, m, on))
                   = Timing(breathOutCallback(e, m, off))
            /\ timers[i].kind = "nextCycle" =>
                 Timing(startCycle(e, m, on)) = Timing(startCycle(e, m, off))
            /\ timers[i].kind = "restart" =>
                 Timing(startCountdown(e, on)) = Timing(startCountdown(e, off))

\* C27: when start() has started a countdown and neither stop() nor
\* restart() is called afterwards, the engine becomes Running and enters
\* the inhale and the exhale again and again.
C27_StartLeadsToBreathing ==
  []( (last.op = "startMetronome" /\ last.from = "Idle") =>
        \/ <>(last.op \in {"stopMetronome", "restartMetronome"})
        \/ /\ <>isPlaying
           /\ []<>(last.op \in {"begin", "nextCycle"} /\ currentPhase = "in")
           /\ []<>(last.op = "breathOut" /\ currentPhase = "out") )

\* C28: in every state isFullScreen is set exactly when the engine is in
\* Countdown or Running.
C28_FullScreenIffActive ==
  isFullScreen <=> Mode(Cur) \in {"Countdown", "Running"}

\* C29: after the unmount no callback of a timeout (countdown step,
\* phase transition, restart delay) and no tick of the interval runs.
C29_NoCallbackAfterUnmount ==
  ~mounted => last.op \notin (TimerOps \cup {"tick"})

\* C30: in the results of every submission that validation accepts,
\* untrainedLower <= untrainedUpper <= trainedVo2max.
C30_FitnessBoundsOrdered ==
  results # << >> =>
    /\ RLe(results[1].untrainedLowerBound, results[1].untrainedUpperBound)
    /\ RLe(results[1].untrainedUpperBound, results[1].trainedVo2max)

====
